---- MODULE Spec2Model ----
(***************************************************************************)
(* A model of the mangascraper MangaPark adapter and of its browser        *)
(* session manager.                                                        *)
(*                                                                         *)
(*   automateBrowser.ts  launch, session set-up, pageScript, teardown      *)
(*   mangapark.ts        getMangaMeta and getPages (through the browser),  *)
(*                       search (its url, plain fetch, run grouping over   *)
(*                       `memo`)                                           *)
(*                                                                         *)
(* Every `await` of the code is one step of the model: the step that       *)
(* resumes the operation when the awaited promise settles, with the        *)
(* synchronous code that follows it up to the next `await`.                *)
(***************************************************************************)
EXTENDS Integers, Sequences, FiniteSets, TLC

VARIABLES
    op,             \* the browser-backed public operation in flight
    url,            \* its url argument
    callback,       \* how the caller's callback behaves
    site,           \* how the target site answers this operation
    pc,             \* the await the operation is suspended at
    browser,        \* the browser process: "none", "open", "closed"
    closeCalls,     \* how many times browser.close() was called
    scriptInvoked,  \* pageScript (the callback of automateBrowser) was called
    scriptResult,   \* the promise pageScript returned
    ab,             \* the promise automateBrowser returned
    underlying,     \* the error the failing step raised (as raised, unwrapped)
    channel,        \* the public promise and what the callback was called with
    preload,        \* page.evaluateOnNewDocument(preload) has completed on the page
    gate,           \* the request handler installed on the page
    request,        \* the request the page issued most recently, and what became of it
    memo,           \* mangapark.ts: the module-level grouping buffer
    inflight,       \* search() operations suspended at `await readHtml`
    last,           \* the search() that settled most recently
    built,          \* the url search() built most recently, with its arguments
    assembled       \* the html getMangaMeta parsed most recently, and its outcome

pageVars == <<preload, gate, request>>
browserVars == <<op, url, callback, site, pc, browser, closeCalls, scriptInvoked,
                 scriptResult, ab, underlying, channel, pageVars>>
searchVars == <<memo, inflight, last, built, assembled>>
vars == <<browserVars, searchVars>>

Undefined == "undefined"

(***************************************************************************)
(* Errors.  An error object is its name, its message and (for Node system  *)
(* errors) a code.                                                         *)
(***************************************************************************)
LaunchErrors ==
    { [name |-> "Error", message |-> "Failed to launch the browser process!", code |-> Undefined],
      [name |-> "Error", message |-> "spawn chrome ENOENT", code |-> "ENOENT"] }
ProtocolError == [name |-> "Error", message |-> "Protocol error: Target closed.", code |-> Undefined]
NavigationError == [name |-> "Error", message |-> "net::ERR_CONNECTION_REFUSED", code |-> Undefined]
NavigationTimeout ==
    [name |-> "TimeoutError", message |-> "Navigation timeout of 30000 ms exceeded", code |-> Undefined]
SelectorTimeout ==
    [name |-> "TimeoutError", message |-> "waiting for selector failed: timeout 30000ms exceeded", code |-> Undefined]
TypeError ==
    [name |-> "TypeError", message |-> "Cannot read property 'toLowerCase' of undefined", code |-> Undefined]
CallbackError == [name |-> "Error", message |-> "thrown by the callback", code |-> Undefined]
MissingUrl == "Missing argument \"url\" is required"

NoError == [name |-> "", message |-> "", code |-> Undefined]

\* String(e) of an Error object: Error.prototype.toString
ErrorToString(e) ==
    IF e.name = "" THEN e.message
    ELSE IF e.message = "" THEN e.name
    ELSE e.name \o ": " \o e.message

\* Error(e): a new plain Error whose message is String(e); nothing else of e is kept
WrapError(e) == [name |-> "Error", message |-> ErrorToString(e)]

\* the `cause` property of an error object: <<cause>>, or <<>> where it has none
CauseOf(e) == IF "cause" \in DOMAIN e THEN <<e.cause>> ELSE <<>>

(***************************************************************************)
(* Promises.                                                               *)
(***************************************************************************)
Pending == [state |-> "pending"]
Fulfilled(v) == [state |-> "fulfilled", value |-> v]
Rejected(e) == [state |-> "rejected", reason |-> e]

\* resolve / reject settle a promise once; later calls are ignored
Settle(p, q) == IF p.state = "pending" THEN q ELSE p

(***************************************************************************)
(* The result channel: success(value, callback, resolve) and               *)
(* failure(error, callback, reject).  The callback is called first, with   *)
(* the outcome, then the promise is settled with the same outcome.  An     *)
(* exception of the callback leaves the function before the promise is     *)
(* settled.                                                                *)
(***************************************************************************)
CallbackKinds == {"returns", "throwsOnResult", "throwsAlways"}

CallbackThrows(cb, kind) ==
    \/ cb = "throwsAlways"
    \/ cb = "throwsOnResult" /\ kind = "success"

NewChannel == [promise |-> Pending, calls |-> <<>>, thrown |-> FALSE]

success(ch, value, cb) ==
    LET called == Append(ch.calls, [kind |-> "success", value |-> value])
    IN  IF CallbackThrows(cb, "success")
        THEN [ch EXCEPT !.calls = called, !.thrown = TRUE]
        ELSE [ch EXCEPT !.calls = called, !.thrown = FALSE,
                        !.promise = Settle(ch.promise, Fulfilled(value))]

failure(ch, error, cb) ==
    LET called == Append(ch.calls, [kind |-> "failure", error |-> error])
    IN  IF CallbackThrows(cb, "failure")
        THEN [ch EXCEPT !.calls = called, !.thrown = TRUE]
        ELSE [ch EXCEPT !.calls = called, !.thrown = FALSE,
                        !.promise = Settle(ch.promise, Rejected(error))]

\* try { ...; success(data, callback, res) } catch (e) { failure(e, callback, rej) }
\* An exception that leaves failure() leaves the async executor: the public
\* promise is not settled by it.
TrySuccess(ch, value, cb) ==
    LET tried == success(ch, value, cb)
    IN  IF tried.thrown THEN failure(tried, CallbackError, cb) ELSE tried

(***************************************************************************)
(* JavaScript values used by the extractors.                               *)
(***************************************************************************)
\* array[i], i counted from 0; undefined past the end
At(array, i) == IF i + 1 <= Len(array) THEN array[i + 1] ELSE Undefined

\* A number is NaN, Infinity or a decimal with one fractional digit, kept in tenths.
NaN == [kind |-> "NaN", tenths |-> 0]
Infinity == [kind |-> "Infinity", tenths |-> 0]
Num(t) == [kind |-> "finite", tenths |-> t]

\* Number(token) for the tokens the cells below hold
Number(token) ==
    CASE token = "4.3" -> Num(43)
      [] token = "5" -> Num(50)
      [] token = "0" -> Num(0)
      [] token = "12345" -> Num(123450)
      [] token = "" -> Num(0)
      [] OTHER -> NaN

\* n in two and in three decimal digits
Digits2(n) == IF n < 10 THEN "0" \o ToString(n) ELSE ToString(n)
Digits3(n) == IF n < 10 THEN "00" \o ToString(n) ELSE IF n < 100 THEN "0" \o ToString(n) ELSE ToString(n)

\* ((numerator / denominator) * 100).toFixed(0)
PercentToFixed0(numerator, denominator) ==
    IF numerator.kind = "NaN" \/ denominator.kind = "NaN" THEN "NaN"
    ELSE IF denominator.tenths = 0
         THEN IF numerator.tenths = 0 THEN "NaN" ELSE "Infinity"
    ELSE ToString((2 * numerator.tenths * 100 + denominator.tenths) \div (2 * denominator.tenths))

\* ((numerator / denominator) * 100).toFixed(2)
PercentToFixed2(numerator, denominator) ==
    IF numerator.kind = "NaN" \/ denominator.kind = "NaN" THEN "NaN"
    ELSE IF denominator.tenths = 0
         THEN IF numerator.tenths = 0 THEN "NaN" ELSE "Infinity"
    ELSE LET hundredths == (2 * numerator.tenths * 10000 + denominator.tenths)
                               \div (2 * denominator.tenths)
         IN  ToString(hundredths \div 100) \o "." \o Digits2(hundredths % 100)

\* `${x}`
NumberToString(x) ==
    IF x.kind # "finite" THEN x.kind
    ELSE IF x.tenths % 10 = 0 THEN ToString(x.tenths \div 10)
    ELSE ToString(x.tenths \div 10) \o "." \o ToString(x.tenths % 10)

\* n.toLocaleString() of a non-negative integer, en-US grouping
RECURSIVE GroupThousands(_)
GroupThousands(n) ==
    IF n < 1000 THEN ToString(n)
    ELSE GroupThousands(n \div 1000) \o "," \o Digits3(n % 1000)

ToLocaleString(x) ==
    IF x.kind # "finite" THEN x.kind
    ELSE IF x.tenths % 10 = 0 THEN GroupThousands(x.tenths \div 10)
    ELSE GroupThousands(x.tenths \div 10) \o "." \o ToString(x.tenths % 10)

\* s.toLowerCase() for the texts the cells below hold
ToLowerCase(s) ==
    CASE s = "Manga" -> "manga"
      [] s = "Manhwa" -> "manhwa"
      [] s = "Ongoing" -> "ongoing"
      [] s = "Completed" -> "completed"
      [] s = "Duck" -> "duck"
      [] s = "Toon" -> "toon"
      [] s = "Cat" -> "cat"
      [] OTHER -> s

\* the rating record built from the tokens of a rating label
MangaRating(ratingText) ==
    LET numerator == Number(At(ratingText, 1))
        denominator == Number(At(ratingText, 3))
    IN  [sourceRating |-> "MangaPark.net",
         voteCount |-> ToLocaleString(Number(At(ratingText, 6))),
         ratingPercentage |-> PercentToFixed2(numerator, denominator) \o "%",
         ratingStars |-> NumberToString(numerator) \o " / " \o NumberToString(denominator)]

(***************************************************************************)
(* The document getMangaMeta reads.  A table cell is the array that        *)
(* text().trim().split(' ') yields for it; a row the page lacks yields     *)
(* the text "", whose split is [""].                                       *)
(***************************************************************************)
NoRow == <<"">>
TypeCells == {NoRow, <<"Japanese", "Manga">>, <<"Korean", "Webtoon">>}
RatingCells ==
    { NoRow,
      <<"Average", "4.3", "/", "5", "out", "of", "12345", "votes.">>,
      <<"Average", "5", "/", "5", "out", "of", "5", "votes.">>,
      <<"Average", "0", "/", "5", "out", "of", "0", "votes.">> }
StatusCells == {"", "Ongoing"}

\* The chapter blocks ('div.volumes') of the document: for each block the
\* text of the span that names its version.  Every block holds one chapter,
\* named after the position of the block.
MaxBlocks == 2
BlockLabels == {"Version Duck", "Version Toon", "Version Cat"}
BlockLists == UNION { [1..k -> BlockLabels] : k \in 0..MaxBlocks }

MetaDocs ==
    [typeCell : TypeCells, ratingCell : RatingCells, statusCell : StatusCells,
     blocks : {<<>>, <<"Version Cat", "Version Duck">>}]

\* rating cells whose denominator is zero or is not a number
OddRatingCells ==
    { <<"Average", "4.3", "/", "0", "out", "of", "0", "votes.">>,
      <<"Average", "0", "/", "0", "out", "of", "0", "votes.">>,
      <<"Average", "4.3", "/", "N/A", "out", "of", "0", "votes.">> }

\* the documents the extraction of getMangaMeta is followed over on its own
ParsedDocs ==
    [typeCell : TypeCells, ratingCell : RatingCells \cup OddRatingCells,
     statusCell : StatusCells, blocks : BlockLists]

\* const type = (() => { ... })(): the value, or the TypeError it throws
TypeThrows(doc) == At(doc.typeCell, 1) = Undefined

MangaType(doc) ==
    LET mangaType == At(doc.typeCell, 1)
    IN  ToLowerCase(IF mangaType = "Webtoon" THEN "manhwa" ELSE mangaType)

\* text.slice(8) for the span texts above
Slice8(text) ==
    CASE text = "Version Duck" -> "Duck"
      [] text = "Version Toon" -> "Toon"
      [] text = "Version Cat" -> "Cat"
      [] OTHER -> ""

Versions == <<"duck", "fox", "rock", "panda", "mini", "toon">>

\* a switch whose default case stores the chapters in the first bucket
BucketOfOrFirst(version) ==
    IF \E i \in 1..Len(Versions) : Versions[i] = version
    THEN CHOOSE i \in 1..Len(Versions) : Versions[i] = version
    ELSE 1

\* switch (version): the index into sourceChapters (from 1) that the case of
\* the version assigns, 0 for the default case
BucketOf(version) ==
    IF \E i \in 1..Len(Versions) : Versions[i] = version
    THEN CHOOSE i \in 1..Len(Versions) : Versions[i] = version
    ELSE 0

\* const data = mangaChapters.map(...) of the b-th block
ChapterData(b) ==
    <<[name |-> "chapter of block " \o ToString(b), uploadWhen |-> "time of block " \o ToString(b)]>>

\* $('div.volumes').each(...), from block b on
RECURSIVE SourceChapters(_, _, _)
SourceChapters(doc, b, sourceChapters) ==
    IF b > Len(doc.blocks) THEN sourceChapters
    ELSE LET version == ToLowerCase(Slice8(doc.blocks[b]))
             bucket == BucketOf(version)
         IN  SourceChapters(doc, b + 1,
                 IF bucket = 0 THEN sourceChapters
                 ELSE [sourceChapters EXCEPT ![bucket] = ChapterData(b)])

\* const chapters = { ... }, without recentlyUpdated
Chapters(doc) ==
    LET sourceChapters == SourceChapters(doc, 1, <<<<>>, <<>>, <<>>, <<>>, <<>>, <<>> >>)
    IN  [duck |-> sourceChapters[1], fox |-> sourceChapters[2], rock |-> sourceChapters[3],
         panda |-> sourceChapters[4], mini |-> sourceChapters[5], toon |-> sourceChapters[6]]

\* The record getMangaMeta assembles.  The fields left out here (title,
\* authors, artists, genres, summary, coverImage, popularity) are direct
\* extractors whose selections yield empty values on zero matches.
MangaMeta(doc) ==
    [rating |-> MangaRating(doc.ratingCell),
     type |-> MangaType(doc),
     status |-> ToLowerCase(doc.statusCell),
     chapters |-> Chapters(doc)]

\* what pageScript of getPages returns: the src of every page image
PageLists == {<<>>, <<"1.webp", "2.webp">>}

(***************************************************************************)
(* The target site, as one operation meets it.                             *)
(***************************************************************************)
Sites == [navigation : {"loads", "fails", "stuck"}, selector : {"appears", "never"}]
Urls == {"null", "https://v2.mangapark.net/manga/berserk"}
BrowserOps == {"getMangaMeta", "getPages"}

\* The options the page scripts pass to page.goto and page.waitForSelector.
\* Neither sets `timeout`, so puppeteer's default timeout bounds both waits
\* (`timeout: 0` would disable it).
gotoOptionsWithoutTimeout == [waitUntil |-> "domcontentloaded", timeout |-> "disabled"]
gotoOptions == [waitUntil |-> "domcontentloaded", timeout |-> "default"]
waitForSelectorOptions == [timeout |-> "default"]

\* a wait gives up once its timeout has passed, unless the timeout is disabled
TimesOut(options) == options.timeout # "disabled"

\* The urls below are sequences of pieces, so that "starts with" is a prefix.
\* Some of the urls getPages lists in BLOCKED_REQUESTS.
BLOCKED_REQUESTS ==
    { <<"https://static.mangapark.net/v2/js/global.js">>,
      <<"https://hm.baidu.com/">> }

\* the third argument the operation passes to automateBrowser
Policy(o) ==
    IF o = "getPages"
    THEN [domains |-> [method |-> "block", value |-> BLOCKED_REQUESTS],
          resource |-> [method |-> "unblock", type |-> {"document", "script"}]]
    ELSE [resource |-> [method |-> "unblock", type |-> {"document"}]]

\* A page on which page.setRequestInterception(true) was never called and
\* that has no 'request' listener: puppeteer lets every request through.
NoGate == [interception |-> FALSE]
NoRequest == [resourceType |-> "none"]

\* the requests a navigation to the target page issues
PageRequests ==
    { [url |-> <<"https://v2.mangapark.net/manga/berserk">>, resourceType |-> "document"],
      [url |-> <<"https://static.mangapark.net/v2/css/style.css">>, resourceType |-> "stylesheet"],
      [url |-> <<"https://xcdn-222.mangapark.net/", "1.webp">>, resourceType |-> "image"],
      [url |-> <<"https://static.mangapark.net/v2/js/global.js">>, resourceType |-> "script"],
      [url |-> <<"https://hm.baidu.com/", "hm.js">>, resourceType |-> "script"],
      [url |-> <<"https://hm.baidu.com/", "hm.gif">>, resourceType |-> "image"] }

\* promise.then(handler) runs the handler only when the promise fulfilled
ThenHandlerRuns(result) == result.state = "fulfilled"
\* promise.finally(handler) runs the handler however the promise settled
FinallyHandlerRuns(result) == result.state \in {"fulfilled", "rejected"}

(***************************************************************************)
(* automateBrowser                                                         *)
(***************************************************************************)
\* try { ... } catch (e) { throw Error(e) }: the promise of automateBrowser
\* rejects with a new Error made from e
Caught(e) ==
    /\ ab' = Rejected(WrapError(e))
    /\ underlying' = e
    /\ pc' = "returned"

\* A public operation is called.  The executor of its promise runs up to the
\* first await: the url check, then automateBrowser up to puppeteer.launch.
Call(o, u, cb, s) ==
    /\ pc \in {"idle", "done"}
    /\ op' = o /\ url' = u /\ callback' = cb /\ site' = s
    /\ browser' = "none" /\ closeCalls' = 0 /\ scriptInvoked' = FALSE
    /\ scriptResult' = Pending /\ ab' = Pending /\ underlying' = NoError
    /\ preload' = FALSE /\ gate' = NoGate /\ request' = NoRequest
    /\ IF u = "null"
       THEN /\ channel' = failure(NewChannel, MissingUrl, cb)
            /\ pc' = "done"
       ELSE /\ channel' = NewChannel
            /\ pc' = "launch"
    /\ UNCHANGED searchVars

\* const browser = await puppeteer.launch(...)
LaunchResolves ==
    /\ pc = "launch"
    /\ browser' = "open"
    /\ pc' = "pages"
    /\ UNCHANGED <<op, url, callback, site, closeCalls, scriptInvoked, scriptResult,
                   ab, underlying, channel, pageVars, searchVars>>

LaunchRejects(e) ==
    /\ pc = "launch"
    /\ Caught(e)
    /\ UNCHANGED <<op, url, callback, site, browser, closeCalls, scriptInvoked,
                   scriptResult, channel, pageVars, searchVars>>

\* const page = (await browser.pages())[0]; then page.setViewport(...) is called
PagesResolves ==
    /\ pc = "pages"
    /\ pc' = "setViewport"
    /\ UNCHANGED <<op, url, callback, site, browser, closeCalls, scriptInvoked,
                   scriptResult, ab, underlying, channel, pageVars, searchVars>>

\* await page.setViewport(...); then callback(page) is called, with no
\* page.evaluateOnNewDocument(preload) before it
SetViewportResolvesAndInvokes ==
    /\ pc = "setViewport"
    /\ scriptInvoked' = TRUE
    /\ pc' = "goto"
    /\ UNCHANGED <<op, url, callback, site, browser, closeCalls, scriptResult,
                   ab, underlying, channel, pageVars, searchVars>>

\* await page.setViewport(...); then page.evaluateOnNewDocument(preload) is called
SetViewportResolves ==
    /\ pc = "setViewport"
    /\ pc' = "evaluateOnNewDocument"
    /\ UNCHANGED <<op, url, callback, site, browser, closeCalls, scriptInvoked,
                   scriptResult, ab, underlying, channel, pageVars, searchVars>>

\* a set-up step after the launch rejects: the catch block runs, nothing else
SetupRejects ==
    /\ pc \in {"pages", "setViewport", "evaluateOnNewDocument"}
    /\ Caught(ProtocolError)
    /\ UNCHANGED <<op, url, callback, site, browser, closeCalls, scriptInvoked,
                   scriptResult, channel, pageVars, searchVars>>

\* await page.evaluateOnNewDocument(preload); then callback(page) is called
\* and browser.close() with it, without waiting for the promise of callback
InvokesAndClosesAtOnce ==
    /\ pc = "evaluateOnNewDocument"
    /\ preload' = TRUE
    /\ scriptInvoked' = TRUE
    /\ closeCalls' = closeCalls + 1
    /\ pc' = "goto"
    /\ UNCHANGED <<op, url, callback, site, browser, scriptResult,
                   ab, underlying, channel, gate, request, searchVars>>

\* await page.evaluateOnNewDocument(preload); then callback(page) is called and
\* runs up to its first await, page.goto(url, ...)
EvaluateOnNewDocumentResolves ==
    /\ pc = "evaluateOnNewDocument"
    /\ preload' = TRUE
    /\ scriptInvoked' = TRUE
    /\ pc' = "goto"
    /\ UNCHANGED <<op, url, callback, site, browser, closeCalls, scriptResult,
                   ab, underlying, channel, gate, request, searchVars>>

\* pageScript's promise settles: the finally handler is next
ScriptSettles(result) ==
    /\ scriptResult' = result
    /\ pc' = "finally"

\* While page.goto is pending the page issues its requests.  Each is decided
\* by the request handler of the page; a page without one continues it.
PageIssuesRequest(r) ==
    /\ pc = "goto"
    /\ site.navigation # "fails"
    /\ request' = [url |-> r.url, resourceType |-> r.resourceType,
                   outcome |-> IF gate = NoGate THEN "continued" ELSE "intercepted"]
    /\ UNCHANGED <<op, url, callback, site, pc, browser, closeCalls, scriptInvoked,
                   scriptResult, ab, underlying, channel, preload, gate, searchVars>>

\* await page.goto(url, { waitUntil: 'domcontentloaded' })
GotoResolves ==
    /\ pc = "goto"
    /\ site.navigation = "loads"
    /\ pc' = IF op = "getPages" THEN "addScriptTag" ELSE "waitForSelector"
    /\ UNCHANGED <<op, url, callback, site, browser, closeCalls, scriptInvoked,
                   scriptResult, ab, underlying, channel, pageVars, searchVars>>

GotoRejects ==
    /\ pc = "goto"
    /\ site.navigation = "fails"
    /\ ScriptSettles(Rejected(NavigationError))
    /\ UNCHANGED <<op, url, callback, site, browser, closeCalls, scriptInvoked,
                   ab, underlying, channel, pageVars, searchVars>>

GotoTimesOut ==
    /\ pc = "goto"
    /\ site.navigation = "stuck"
    /\ TimesOut(gotoOptions)
    /\ ScriptSettles(Rejected(NavigationTimeout))
    /\ UNCHANGED <<op, url, callback, site, browser, closeCalls, scriptInvoked,
                   ab, underlying, channel, pageVars, searchVars>>

\* getPages: await page.addScriptTag({ path: require.resolve('jquery') })
AddScriptTagResolves ==
    /\ pc = "addScriptTag"
    /\ pc' = "waitForSelector"
    /\ UNCHANGED <<op, url, callback, site, browser, closeCalls, scriptInvoked,
                   scriptResult, ab, underlying, channel, pageVars, searchVars>>

\* await page.waitForSelector('h2') / ('a.img-link')
WaitForSelectorResolves ==
    /\ pc = "waitForSelector"
    /\ site.selector = "appears"
    /\ pc' = "evaluate"
    /\ UNCHANGED <<op, url, callback, site, browser, closeCalls, scriptInvoked,
                   scriptResult, ab, underlying, channel, pageVars, searchVars>>

WaitForSelectorTimesOut ==
    /\ pc = "waitForSelector"
    /\ site.selector = "never"
    /\ TimesOut(waitForSelectorOptions)
    /\ ScriptSettles(Rejected(SelectorTimeout))
    /\ UNCHANGED <<op, url, callback, site, browser, closeCalls, scriptInvoked,
                   ab, underlying, channel, pageVars, searchVars>>

EvaluateValues(o) == IF o = "getPages" THEN PageLists ELSE MetaDocs

\* return await page.evaluate(...): the html of the document (getMangaMeta),
\* the image urls (getPages)
EvaluateResolves(value) ==
    /\ pc = "evaluate"
    /\ ScriptSettles(Fulfilled(value))
    /\ UNCHANGED <<op, url, callback, site, browser, closeCalls, scriptInvoked,
                   ab, underlying, channel, pageVars, searchVars>>

\* a page call of pageScript rejects because the page or the browser went away
ScriptStepRejects ==
    /\ pc \in {"addScriptTag", "evaluate"}
    /\ ScriptSettles(Rejected(ProtocolError))
    /\ UNCHANGED <<op, url, callback, site, browser, closeCalls, scriptInvoked,
                   ab, underlying, channel, pageVars, searchVars>>

\* callback(page).finally(async () => await browser.close()): the handler runs
\* and calls browser.close(); where no handler runs the rejection passes on
\* to the catch block
Finally ==
    /\ pc = "finally"
    /\ IF FinallyHandlerRuns(scriptResult)
       THEN /\ closeCalls' = closeCalls + 1
            /\ pc' = "close"
            /\ UNCHANGED <<ab, underlying>>
       ELSE /\ Caught(scriptResult.reason)
            /\ UNCHANGED closeCalls
    /\ UNCHANGED <<op, url, callback, site, browser, scriptInvoked, scriptResult,
                   channel, pageVars, searchVars>>

\* browser.close() resolves: the process is gone, and the promise of
\* callback(page).finally(...) settles as pageScript's did
CloseResolves ==
    /\ pc = "close"
    /\ browser' = "closed"
    /\ IF scriptResult.state = "fulfilled"
       THEN /\ ab' = Fulfilled(scriptResult.value)
            /\ pc' = "returned"
            /\ UNCHANGED underlying
       ELSE Caught(scriptResult.reason)
    /\ UNCHANGED <<op, url, callback, site, closeCalls, scriptInvoked, scriptResult,
                   channel, pageVars, searchVars>>

(***************************************************************************)
(* getMangaMeta and getPages, after `await automateBrowser(...)`           *)
(***************************************************************************)
\* getMangaMeta: the extraction over the html, then success(); an exception
\* of either goes to the catch block, which calls failure()
AssembleMeta(ch, doc, cb) ==
    IF TypeThrows(doc)
    THEN failure(ch, TypeError, cb)
    ELSE TrySuccess(ch, MangaMeta(doc), cb)

\* the operation resumes with the outcome of automateBrowser
Resume ==
    /\ pc = "returned"
    /\ channel' =
         IF ab.state = "rejected" THEN failure(channel, ab.reason, callback)
         ELSE IF op = "getMangaMeta" THEN AssembleMeta(channel, ab.value, callback)
         ELSE TrySuccess(channel, ab.value, callback)
    /\ pc' = "done"
    /\ UNCHANGED <<op, url, callback, site, browser, closeCalls, scriptInvoked,
                   scriptResult, ab, underlying, pageVars, searchVars>>

NoMeta == [state |-> "none"]

\* getMangaMeta, from line 294 on, over the html automateBrowser returned: the
\* extraction and success(), or failure() from the catch block
ParsesMeta(doc) ==
    /\ assembled' = [state |-> "parsed", doc |-> doc,
                     channel |-> AssembleMeta(NewChannel, doc, "returns")]
    /\ UNCHANGED <<memo, inflight, last, built, browserVars>>

(***************************************************************************)
(* The document search() reads.  The document gives, for each selector of  *)
(* search(), the elements the selector yields, in the order cheerio        *)
(* enumerates them.  Texts are named after their position, so that a text  *)
(* that ends up in the wrong place shows.                                  *)
(*                                                                         *)
(*   titles    'h2 > a'                      how many title anchors        *)
(*   siblings  'div:contains("Authors/Artists") > b.pd' .prevAll()         *)
(*             for each element, whether it is the label "Authors/Artists:"*)
(*   anchors   'div.field.last > a'                                        *)
(*             for each anchor, whether its next sibling is an anchor      *)
(*   rates     'div.rate'                    how many rating labels        *)
(*   covers    'a.cover > img'               how many cover images         *)
(***************************************************************************)
MaxRows == 2
MaxSiblings == 3
MaxAnchors == 1
MaxMemo == 1
MaxInflight == 2

BoolSeqs(n) == UNION { [1..k -> BOOLEAN] : k \in 0..n }

\* The anchor after the last anchor of the selection would be selected too:
\* the last anchor of 'div.field.last > a' is never followed by an anchor.
AnchorSeqs == { a \in BoolSeqs(MaxAnchors) : a = <<>> \/ ~a[Len(a)] }

SearchDocs ==
    [titles : 0..MaxRows, siblings : BoolSeqs(MaxSiblings), anchors : AnchorSeqs,
     rates : 0..MaxRows, covers : 0..MaxRows]

MarkerText == "Authors/Artists:"
SiblingText(doc, k) == IF doc.siblings[k] THEN MarkerText ELSE "author " \o ToString(k)
AnchorText(doc, k) == "genre " \o ToString(k)
\* the title attribute of the k-th div.rate, split(' ')
RateText(k) == <<"Rated", "4.3", "/", "5", "out", "of", ToString(k), "votes">>

\* text.match('Authors/Artists:'), for the texts above
MatchesMarker(text) == text = MarkerText

\* an array element that may be undefined: <<x>> or <<>>
Some(x) == <<x>>
None == <<>>
Get(array, i) == IF i + 1 <= Len(array) THEN Some(array[i + 1]) ELSE None

\* a selection that also yields the heading anchor of a page without rows
TitleURLsWithHeading(doc) ==
    [i \in 1..(doc.titles + 1) |->
        [url |-> "https://v2.mangapark.net/manga/" \o ToString(i), title |-> "title " \o ToString(i)]]

\* $('h2 > a').map(...).get()
TitleURLs(doc) ==
    [i \in 1..doc.titles |->
        [url |-> "https://v2.mangapark.net/manga/" \o ToString(i), title |-> "title " \o ToString(i)]]

\* The authors pass (.prevAll().map(...).get()), from element k on: a text that
\* is not the label goes to memo and yields nothing, the label yields memo as
\* one group and empties memo.
RECURSIVE AuthorsFrom(_, _, _, _)
AuthorsFrom(doc, k, m, groups) ==
    IF k > Len(doc.siblings) THEN [groups |-> groups, memo |-> m]
    ELSE LET text == SiblingText(doc, k)
         IN  IF ~MatchesMarker(text)
             THEN AuthorsFrom(doc, k + 1, Append(m, text), groups)
             ELSE AuthorsFrom(doc, k + 1, <<>>, Append(groups, m))

\* The genres pass: an anchor followed by an anchor goes to memo and yields
\* nothing, any other anchor yields memo as one group and empties memo.
RECURSIVE GenresFrom(_, _, _, _)
GenresFrom(doc, k, m, groups) ==
    IF k > Len(doc.anchors) THEN [groups |-> groups, memo |-> m]
    ELSE LET text == AnchorText(doc, k)
         IN  IF doc.anchors[k]
             THEN GenresFrom(doc, k + 1, Append(m, text), groups)
             ELSE GenresFrom(doc, k + 1, <<>>, Append(groups, m))

\* $('div.rate').map(...)
MangaRatings(doc) == [i \in 1..doc.rates |-> MangaRating(RateText(i))]

\* $('a.cover > img').map(...).get()
CoverImages(doc) == [i \in 1..doc.covers |-> "cover " \o ToString(i)]

\* a zip that stops at the shortest of the arrays
ExtractZipShortest(doc, m) ==
    LET titleURLs == TitleURLs(doc)
        authors == AuthorsFrom(doc, 1, m, <<>>)
        mangaGenres == GenresFrom(doc, 1, authors.memo, <<>>)
        mangaRating == MangaRatings(doc)
        coverImage == CoverImages(doc)
        shortest == CHOOSE n \in {Len(titleURLs), Len(mangaRating), Len(coverImage)} :
                        \A k \in {Len(titleURLs), Len(mangaRating), Len(coverImage)} : n <= k
    IN  [authors |-> authors.groups,
         mangaGenres |-> mangaGenres.groups,
         data |-> [i \in 1..shortest |->
                     [title |-> titleURLs[i].title,
                      url |-> titleURLs[i].url,
                      authors |-> Get(authors.groups, i - 1),
                      coverImage |-> Get(coverImage, i - 1),
                      genres |-> Get(mangaGenres.groups, i - 1),
                      rating |-> Get(mangaRating, i - 1)]],
         memo |-> mangaGenres.memo]

\* Lines 189-252 of search(), run with memo = m: the arrays, the records
\* zipped from them by index, and memo as the passes leave it.
Extract(doc, m) ==
    LET titleURLs == TitleURLs(doc)
        authors == AuthorsFrom(doc, 1, m, <<>>)
        mangaGenres == GenresFrom(doc, 1, authors.memo, <<>>)
        mangaRating == MangaRatings(doc)
        coverImage == CoverImages(doc)
    IN  [authors |-> authors.groups,
         mangaGenres |-> mangaGenres.groups,
         data |-> [i \in 1..Len(titleURLs) |->
                     [title |-> titleURLs[i].title,
                      url |-> titleURLs[i].url,
                      authors |-> Get(authors.groups, i - 1),
                      coverImage |-> Get(coverImage, i - 1),
                      genres |-> Get(mangaGenres.groups, i - 1),
                      rating |-> Get(mangaRating, i - 1)]],
         memo |-> mangaGenres.memo]

(***************************************************************************)
(* search()                                                                *)
(***************************************************************************)
\* the `page` filter: its typeof and its numeric value
PageArgs == [typeof : {"number", "string"}, value : {0, 1}]
FetchError == [name |-> "Error", message |-> "Request failed with status code 503", code |-> Undefined]

NoSearch == [state |-> "none"]

\* search() is called with the default callback.  The executor runs up to
\* `await readHtml(url, this.options)`, or fails the page check before it.
SearchCall(page) ==
    /\ inflight < MaxInflight
    /\ IF page.typeof # "number"
       THEN /\ last = NoSearch
            /\ last' = [state |-> "rejected",
                        channel |-> failure(NewChannel, "\"page\" must be a number", "returns")]
            /\ UNCHANGED inflight
       ELSE /\ inflight' = inflight + 1
            /\ UNCHANGED last
    /\ UNCHANGED <<memo, built, assembled, browserVars>>

\* the documents the model follows readHtml resolving with
ReadableDocs ==
    CASE last.state = "none" -> SearchDocs
      [] last.state = "resolved" -> {last.doc}
      [] OTHER -> {}

\* readHtml resolves with the parsed document of one suspended search(); the
\* extraction and success() follow without another await.  `last` keeps the
\* outcome until the caller has taken it; a search() that settles while
\* `last` still holds the outcome of one that read the same document keeps
\* the records of that one in `before`.
ReadHtmlResolves(doc) ==
    /\ inflight > 0
    /\ doc \in ReadableDocs
    /\ LET run == Extract(doc, memo)
       IN  /\ Len(run.memo) <= MaxMemo
           /\ memo' = run.memo
           /\ last' = [state |-> "resolved", doc |-> doc, memoBefore |-> memo,
                       before |-> IF last.state = "resolved"
                                  THEN Some(last.channel.promise.value) ELSE None,
                       channel |-> TrySuccess(NewChannel, run.data, "returns")]
    /\ inflight' = inflight - 1
    /\ UNCHANGED <<built, assembled, browserVars>>

\* readHtml rejects: the catch block calls failure()
ReadHtmlRejects ==
    /\ inflight > 0
    /\ last = NoSearch
    /\ last' = [state |-> "rejected", channel |-> failure(NewChannel, FetchError, "returns")]
    /\ inflight' = inflight - 1
    /\ UNCHANGED <<memo, built, assembled, browserVars>>

\* the caller's continuation takes the outcome of the search() that settled
CallerResumes ==
    /\ last # NoSearch
    /\ last' = NoSearch
    /\ UNCHANGED <<memo, inflight, built, assembled, browserVars>>

(***************************************************************************)
(* The url search() requests.  A string is the sequence of its pieces: a   *)
(* reserved character is a piece of its own, so that encoding and the      *)
(* '&' between parameters show.                                            *)
(***************************************************************************)
Null == <<>>
Terms == { <<"Berserk">>, <<"One", " ", "Piece">>, <<"R", "&", "B">>, <<"Miura">> }

\* query: null, a string (the empty string too), or an object whose title
\* and author are each a string or missing
Queries ==
    {[typeof |-> "null"]}
        \cup [typeof : {"string"}, value : Terms \cup {<<>>}]
        \cup [typeof : {"object"}, title : {Null} \cup { Some(t) : t \in Terms },
                                   author : {Null} \cup { Some(t) : t \in Terms }]

\* the filters that reach the url ("5 stars" stands for the rating '5☆')
Filters ==
    [rating : {"any", "5 stars"}, status : {"any", "completed"}, type : {"any", "manga"},
     yearReleased : {Undefined, "2020"}, page : {1, 2}]

\* encodeURIComponent, piece by piece
EncodeURIComponent(string) ==
    [i \in 1..Len(string) |->
        CASE string[i] = " " -> "%20"
          [] string[i] = "&" -> "%26"
          [] string[i] = "=" -> "%3D"
          [] OTHER -> string[i]]

\* array.join(separator)
RECURSIVE Join(_, _)
Join(array, separator) ==
    IF array = <<>> THEN <<>>
    ELSE IF Len(array) = 1 THEN array[1]
    ELSE array[1] \o <<separator>> \o Join(Tail(array), separator)

\* array.filter((item) => item.length !== 0)
NonEmpty(array) == SelectSeq(array, LAMBDA item : Len(item) # 0)

\* const queryParam = (() => { ... })()
QueryParam(query) ==
    IF query.typeof = "null" THEN <<>>
    ELSE IF query.typeof = "string"
         THEN IF Len(query.value) = 0 THEN <<>>
              ELSE <<"q=">> \o EncodeURIComponent(query.value)
    ELSE LET author == IF query.author = Null THEN <<>>
                       ELSE <<"autart=">> \o EncodeURIComponent(query.author[1])
             _query == IF query.title = Null THEN <<>>
                       ELSE <<"q=">> \o EncodeURIComponent(query.title[1])
         IN  Join(NonEmpty(<<_query, author>>), "")

\* rating.substring(0, 0)
RatingValue(rating) == <<>>

\* const url = (() => { ... })(), without the genre filters
SearchUrl(query, filters) ==
    LET queryParam == QueryParam(query)
        mangaRating == IF filters.rating # "any" THEN <<"rating=">> \o RatingValue(filters.rating) ELSE <<>>
        mangaStatus == IF filters.status # "any" THEN <<"status=", filters.status>> ELSE <<>>
        mangaType == IF filters.type # "any" THEN <<"types=", filters.type>> ELSE <<>>
        year == IF filters.yearReleased # Undefined THEN <<"years=", filters.yearReleased>> ELSE <<>>
        order == <<"orderby=", "views_a">>
        args == Join(NonEmpty(<<queryParam, mangaRating, mangaStatus, mangaType, year, order,
                                <<"st-ss=0">>, <<"page=", ToString(filters.page)>> >>), "&")
    IN  <<"https://v2.mangapark.net/search?">> \o args

NoUrl == [url |-> <<>>]

\* search(query, filters) builds its url before it returns its promise
BuildsUrl(query, filters) ==
    /\ built' = [query |-> query, filters |-> filters, url |-> SearchUrl(query, filters)]
    /\ UNCHANGED <<memo, inflight, last, assembled, browserVars>>

Init ==
    /\ op = "none" /\ url = "null" /\ callback = "returns"
    /\ site = [navigation |-> "loads", selector |-> "appears"]
    /\ pc = "idle"
    /\ browser = "none" /\ closeCalls = 0 /\ scriptInvoked = FALSE
    /\ scriptResult = Pending /\ ab = Pending /\ underlying = NoError
    /\ channel = NewChannel
    /\ preload = FALSE /\ gate = NoGate /\ request = NoRequest
    /\ memo = <<>> /\ inflight = 0 /\ last = NoSearch
    /\ built = NoUrl
    /\ assembled = NoMeta

\* the steps that resume an operation in flight
Progress ==
    \/ LaunchResolves
    \/ \E e \in LaunchErrors : LaunchRejects(e)
    \/ PagesResolves
    \/ SetViewportResolves
    \/ SetupRejects
    \/ EvaluateOnNewDocumentResolves
    \/ GotoResolves
    \/ GotoRejects
    \/ GotoTimesOut
    \/ AddScriptTagResolves
    \/ WaitForSelectorResolves
    \/ WaitForSelectorTimesOut
    \/ \E value \in EvaluateValues(op) : EvaluateResolves(value)
    \/ ScriptStepRejects
    \/ Finally
    \/ CloseResolves
    \/ Resume

Next ==
    \/ \E o \in BrowserOps, u \in Urls, cb \in CallbackKinds, s \in Sites : Call(o, u, cb, s)
    \/ \E r \in PageRequests : PageIssuesRequest(r)
    \/ Progress

Spec == Init /\ [][Next]_vars

SearchNext ==
    \/ \E page \in PageArgs : SearchCall(page)
    \/ \E doc \in ReadableDocs : ReadHtmlResolves(doc)
    \/ ReadHtmlRejects
    \/ CallerResumes

SearchSpec == Init /\ [][SearchNext]_vars

UrlNext == \E query \in Queries, filters \in Filters : BuildsUrl(query, filters)

UrlSpec == Init /\ [][UrlNext]_vars

MetaNext == \E doc \in ParsedDocs : ParsesMeta(doc)

MetaSpec == Init /\ [][MetaNext]_vars

\* Every awaited promise of an operation in flight settles and the event loop
\* then resumes the operation.
FairSpec == Spec /\ WF_vars(Progress)

(***************************************************************************)
(* Browser session manager                                                 *)
(***************************************************************************)
\* C1: automateBrowser never settles while the browser it launched is still
\* open: on every exit path after the launch browser.close() has run.
C1_SettledImpliesBrowserClosed ==
    ab.state # "pending" => browser # "open"

\* C2: when pageScript was invoked, browser.close() has been called exactly
\* once by the time automateBrowser settles, however pageScript ended, and it
\* is never called twice.
C2_CloseExactlyOnce ==
    /\ closeCalls <= 1
    /\ (scriptInvoked /\ ab.state # "pending") => closeCalls = 1

\* pageScript threw, and automateBrowser settled after one browser.close()
C2_ScriptThrewAndClosedOnce ==
    /\ scriptInvoked
    /\ scriptResult.state = "rejected"
    /\ ab.state = "rejected"
    /\ closeCalls = 1

\* the page never reaches the condition pageScript waits for
StuckWait ==
    \/ pc = "goto" /\ site.navigation = "stuck"
    \/ pc = "waitForSelector" /\ site.selector = "never"

TornDownByTimeout ==
    /\ ab.state = "rejected"
    /\ ab.reason = WrapError(underlying)
    /\ underlying.name = "TimeoutError"
    /\ browser = "closed"

\* C3: an operation whose page never reaches the condition pageScript waits
\* for does not stay pending: the timeout of the wait ends it, the browser is
\* closed and automateBrowser fails with the wrapped timeout error.
C3_StuckWaitEndsInTeardown ==
    StuckWait ~> TornDownByTimeout

\* a selector wait timed out and the operation was torn down
C3_SelectorTimeoutTornDown ==
    /\ TornDownByTimeout
    /\ underlying = SelectorTimeout

\* C4: every failure of automateBrowser reaches the caller as the same kind
\* of error, and that error carries the error that caused it.
C4_ErrorCarriesCause ==
    ab.state = "rejected" =>
        /\ ab.reason.name = "Error"
        /\ CauseOf(ab.reason) = <<underlying>>

(***************************************************************************)
(* Result channel                                                          *)
(***************************************************************************)
SameOutcome(call, promise) ==
    \/ /\ promise.state = "fulfilled"
       /\ call.kind = "success"
       /\ call.value = promise.value
    \/ /\ promise.state = "rejected"
       /\ call.kind = "failure"
       /\ call.error = promise.reason

\* C5: a public operation that has run to its end has settled its promise,
\* and has called the callback exactly once, with the outcome the promise
\* settled with, whether the callback returns or throws.
C5_ExactlyOneOutcome ==
    pc = "done" =>
        /\ channel.promise.state # "pending"
        /\ Len(channel.calls) = 1
        /\ SameOutcome(channel.calls[1], channel.promise)

(***************************************************************************)
(* getMangaMeta                                                            *)
(***************************************************************************)
\* C10: once pageScript has returned the document, getMangaMeta resolves with
\* a record, whatever rows the document lacks (here for a callback that
\* returns, so that only the extraction decides the outcome).
C10_DocumentObtainedImpliesAssembled ==
    (op = "getMangaMeta" /\ pc = "done" /\ ab.state = "fulfilled" /\ callback = "returns")
        => channel.promise.state = "fulfilled"

(***************************************************************************)
(* search()                                                                *)
(***************************************************************************)
Records(search) == search.channel.promise.value

\* the positions of the labels among the siblings of a document
Markers(doc) == { k \in 1..Len(doc.siblings) : doc.siblings[k] }
NthMarker(doc, i) ==
    CHOOSE k \in Markers(doc) : Cardinality({ j \in Markers(doc) : j <= k }) = i
LastMarker(doc) ==
    IF Markers(doc) = {} THEN 0 ELSE CHOOSE k \in Markers(doc) : \A j \in Markers(doc) : j <= k

\* the texts between the label at position k and the label before it
RunBefore(doc, k) ==
    LET before == { j \in Markers(doc) : j < k }
        start == IF before = {} THEN 0 ELSE CHOOSE j \in before : \A h \in before : h <= j
    IN  [n \in 1..(k - start - 1) |-> SiblingText(doc, start + n)]

\* the texts after the last label
TrailingTexts(doc) ==
    { SiblingText(doc, k) : k \in (LastMarker(doc) + 1)..Len(doc.siblings) }

Elements(groups) == UNION { { g[n] : n \in 1..Len(g) } : g \in { groups[i] : i \in 1..Len(groups) } }

\* C6: the records a search() returns are those the extraction yields for its
\* own document when no other operation has run.
C6_RecordsDependOnOwnDocument ==
    last.state = "resolved" => Records(last) = Extract(last.doc, <<>>).data

\* every row has a title and an author run that its label ends
RowsWithAuthorRuns(doc) ==
    /\ doc.titles >= 1
    /\ Cardinality(Markers(doc)) = doc.titles
    /\ LastMarker(doc) = Len(doc.siblings)

\* C7: for a document of N rows, each with its author run ended by the label,
\* search() returns N records and the authors of the i-th record are the
\* texts of the i-th run.
C7_AuthorsMatchRows ==
    (last.state = "resolved" /\ RowsWithAuthorRuns(last.doc)) =>
        /\ Len(Records(last)) = last.doc.titles
        /\ \A i \in 1..last.doc.titles :
              Records(last)[i].authors = <<RunBefore(last.doc, NthMarker(last.doc, i))>>

\* C8: the authors pass emits one group per label, in order, each group the
\* texts since the label before it, and the texts after the last label are
\* in no group that the extraction emits.
C8_OneGroupPerMarker ==
    last.state = "resolved" =>
        LET doc == last.doc
            run == Extract(doc, last.memoBefore)
        IN  /\ Len(run.authors) = Cardinality(Markers(doc))
            /\ \A i \in 1..Len(run.authors) :
                  run.authors[i] = RunBefore(doc, NthMarker(doc, i))
            /\ TrailingTexts(doc) \cap (Elements(run.authors) \cup Elements(run.mangaGenres)) = {}

\* C9: a search() that reads the document the search() before it read returns
\* the same records.
C9_RerunYieldsSameRecords ==
    (last.state = "resolved" /\ last.before # <<>>) => last.before = <<Records(last)>>

(***************************************************************************)
(* Request interception                                                    *)
(***************************************************************************)
StartsWith(string, prefix) ==
    /\ Len(prefix) <= Len(string)
    /\ SubSeq(string, 1, Len(prefix)) = prefix

\* the request's url starts with a value of a domain rule with method block
MatchesBlockedDomain(policy, r) ==
    /\ "domains" \in DOMAIN policy
    /\ policy.domains.method = "block"
    /\ \E value \in policy.domains.value : StartsWith(r.url, value)

\* C11: a request whose url matches a value of the block rule of the
\* operation's policy is denied, whatever its resource type and whatever the
\* unblock rule lists.
C11_BlockedDomainDenied ==
    (request # NoRequest /\ MatchesBlockedDomain(Policy(op), request))
        => request.outcome = "aborted"

\* C17: when pageScript is invoked, the policy the operation passed is the
\* request handler of the page, and every request of the navigation was
\* decided by it.
C17_PolicyInstalledBeforeScript ==
    /\ scriptInvoked => gate = Policy(op)
    /\ request # NoRequest => request.outcome = "intercepted"

\* C20: a request on a domain that is not blocked is allowed exactly when
\* its resource type is in the unblock rule of the policy, and is allowed
\* when the policy has no resource rule.
C20_ResourceAllowList ==
    (request # NoRequest /\ ~MatchesBlockedDomain(Policy(op), request)) =>
        LET policy == Policy(op)
        IN  request.outcome = "continued" <=>
               \/ "resource" \notin DOMAIN policy
               \/ /\ policy.resource.method = "unblock"
                  /\ request.resourceType \in policy.resource.type

(***************************************************************************)
(* Session set-up and teardown order                                       *)
(***************************************************************************)
\* C18: pageScript is invoked, and the page navigates, only after
\* page.evaluateOnNewDocument(preload) has completed; where the registration
\* fails pageScript is not invoked.
C18_PreloadBeforeScript ==
    /\ scriptInvoked => preload
    /\ request # NoRequest => preload
    /\ (ab.state = "rejected" /\ ~preload) => (~scriptInvoked /\ scriptResult = Pending)

\* pageScript is navigating on a page that has the preload script
C18_NavigatingWithPreload ==
    /\ scriptInvoked /\ preload
    /\ pc = "goto"
    /\ request # NoRequest

PageSteps == {"goto", "addScriptTag", "waitForSelector", "evaluate"}

\* C19: browser.close() is called only after pageScript's promise has
\* settled, no page call of pageScript is pending once close was called, the
\* value automateBrowser returns is the value pageScript read from the open
\* page, and the record getMangaMeta resolves with is computed from that
\* copied value.
C19_NoPageAccessAfterTeardown ==
    /\ closeCalls > 0 => scriptResult.state # "pending"
    /\ pc \in PageSteps => (browser = "open" /\ closeCalls = 0)
    /\ ab.state = "fulfilled" =>
          (scriptResult.state = "fulfilled" /\ ab.value = scriptResult.value)
    /\ (op = "getMangaMeta" /\ pc = "done" /\ channel.promise.state = "fulfilled") =>
          channel.promise.value = MangaMeta(scriptResult.value)

\* getMangaMeta resolved with a record extracted after the browser was closed
C19_ExtractedAfterClose ==
    /\ op = "getMangaMeta" /\ pc = "done"
    /\ browser = "closed" /\ closeCalls = 1
    /\ channel.promise.state = "fulfilled"

(***************************************************************************)
(* Argument checks                                                         *)
(***************************************************************************)
ValidPage(page) == page.typeof = "number" /\ page.value >= 1

\* C12: a search() called with a page that is not a number or is below 1
\* fails at once and starts no fetch.
C12_InvalidPageFailsBeforeFetch ==
    [][\A page \in PageArgs :
          (~ValidPage(page) /\ SearchCall(page)) =>
              (inflight' = inflight /\ last'.state = "rejected")]_vars

(***************************************************************************)
(* search(): boundary and buffers                                          *)
(***************************************************************************)
\* C13: a search() whose document has no search-result rows resolves with
\* the empty sequence of records.
C13_NoRowsResolvesEmpty ==
    (last.state = "resolved" /\ last.doc.titles = 0) =>
        /\ last.channel.promise.state = "fulfilled"
        /\ Records(last) = <<>>

\* a search() of a document without any row has resolved
C13_EmptyDocumentResolved ==
    /\ last.state = "resolved"
    /\ last.doc.titles = 0 /\ last.doc.siblings = <<>> /\ last.doc.anchors = <<>>
    /\ last.channel.promise.state = "fulfilled"

\* C16: each grouping pass of a search() starts with memo empty: the authors
\* pass finds nothing left by an earlier search(), the genres pass nothing
\* left by the authors pass.
C16_PassesStartEmpty ==
    last.state = "resolved" =>
        /\ last.memoBefore = <<>>
        /\ AuthorsFrom(last.doc, 1, last.memoBefore, <<>>).memo = <<>>

(***************************************************************************)
(* Rating                                                                  *)
(***************************************************************************)
\* text is the decimal with two fraction digits nearest to 100 * n / d
RoundedPercent(text, n, d) ==
    \E h \in 0..10000 :
        /\ 2 * h * d.tenths - 2 * n.tenths * 10000 <= d.tenths
        /\ 2 * n.tenths * 10000 - 2 * h * d.tenths <= d.tenths
        /\ text = ToString(h \div 100) \o "." \o Digits2(h % 100) \o "%"

\* C14: the rating of a label "<numerator> / <denominator> out of <votes>"
\* has ratingPercentage = 100 * numerator / denominator rounded to two
\* decimals and ratingStars = "<numerator> / <denominator>"; for 4.3, 5 and
\* 12345 votes these are "86.00%" and "4.3 / 5".
C14_RatingOfLabel ==
    (op = "getMangaMeta" /\ pc = "done" /\ channel.promise.state = "fulfilled"
        /\ ab.value.ratingCell # NoRow) =>
        LET cell == ab.value.ratingCell
            rating == channel.promise.value.rating
        IN  /\ RoundedPercent(rating.ratingPercentage, Number(cell[2]), Number(cell[4]))
            /\ rating.ratingStars = cell[2] \o " / " \o cell[4]
            /\ (cell[2] = "4.3" /\ cell[4] = "5" /\ cell[7] = "12345") =>
                   (rating.ratingPercentage = "86.00%" /\ rating.ratingStars = "4.3 / 5")

\* getMangaMeta resolved with the rating of the label 4.3 / 5 out of 12345
C14_RatedLabelAssembled ==
    /\ op = "getMangaMeta" /\ pc = "done" /\ channel.promise.state = "fulfilled"
    /\ ab.value.ratingCell = <<"Average", "4.3", "/", "5", "out", "of", "12345", "votes.">>
    /\ channel.promise.value.rating.ratingPercentage = "86.00%"

(***************************************************************************)
(* The search url                                                          *)
(***************************************************************************)
\* string.split(separator)
RECURSIVE Split(_, _, _)
Split(string, separator, piece) ==
    IF string = <<>> THEN <<piece>>
    ELSE IF Head(string) = separator THEN <<piece>> \o Split(Tail(string), separator, <<>>)
    ELSE Split(Tail(string), separator, Append(piece, Head(string)))

\* the '&'-delimited parameters of a url
Params(u) == Split(Tail(u), "&", <<>>)

ParamNames ==
    {"q=", "autart=", "rating=", "status=", "types=", "years=", "orderby=", "st-ss=0", "page="}

\* C15: for a query object with title and author the url has the parameter
\* q=<title> and the parameter autart=<author>, each between '&', and every
\* parameter of a url holds one name.
C15_TitleAndAuthorSeparate ==
    built # NoUrl =>
        LET params == Params(built.url)
            query == built.query
        IN  /\ \A i \in 1..Len(params) :
                  Cardinality({ k \in 1..Len(params[i]) : params[i][k] \in ParamNames }) = 1
            /\ (query.typeof = "object" /\ query.title # Null /\ query.author # Null) =>
                  /\ \E i \in 1..Len(params) :
                        params[i] = <<"q=">> \o EncodeURIComponent(query.title[1])
                  /\ \E i \in 1..Len(params) :
                        params[i] = <<"autart=">> \o EncodeURIComponent(query.author[1])

(***************************************************************************)
(* getMangaMeta: rating of an odd label, chapter blocks                    *)
(***************************************************************************)
\* the denominator of the rating cell is zero or is not a number
BadDenominator(doc) ==
    LET denominator == Number(At(doc.ratingCell, 3))
    IN  denominator.kind = "NaN" \/ denominator.tenths = 0

\* C21: where the denominator of the rating label is zero or not a number,
\* the extraction raises no error and ratingPercentage is "NaN%", whatever
\* the numerator.
C21_BadDenominatorGivesNaN ==
    (assembled.state = "parsed" /\ BadDenominator(assembled.doc) /\ ~TypeThrows(assembled.doc)) =>
        /\ assembled.channel.promise.state = "fulfilled"
        /\ assembled.channel.promise.value.rating.ratingPercentage = "NaN%"

\* the blocks of a document whose span names the version
BlocksOf(doc, version) ==
    { b \in 1..Len(doc.blocks) : ToLowerCase(Slice8(doc.blocks[b])) = version }

VersionNames == { Versions[i] : i \in 1..Len(Versions) }

\* the document without the blocks whose version is none of the six; the
\* chapters of the blocks that stay keep their names
RECURSIVE KnownChapters(_, _, _)
KnownChapters(doc, b, sourceChapters) ==
    IF b > Len(doc.blocks) THEN sourceChapters
    ELSE LET version == ToLowerCase(Slice8(doc.blocks[b]))
         IN  KnownChapters(doc, b + 1,
                 IF version \in VersionNames
                 THEN [i \in 1..6 |-> IF Versions[i] = version THEN ChapterData(b)
                                      ELSE sourceChapters[i]]
                 ELSE sourceChapters)

\* C22: a chapter block whose version is none of duck, fox, rock, panda,
\* mini, toon changes no bucket and does not fail getMangaMeta: the result
\* has the six buckets, each a list that is empty or holds the chapters of
\* a block of that version, and the buckets are those of the document
\* without the unknown blocks.
C22_UnknownLabelDropped ==
    assembled.state = "parsed" =>
        LET doc == assembled.doc
            promise == assembled.channel.promise
        IN  /\ promise.state = "rejected" => TypeThrows(doc)
            /\ promise.state = "fulfilled" =>
                  LET chapters == promise.value.chapters
                      known == KnownChapters(doc, 1, [i \in 1..6 |-> <<>>])
                  IN  /\ DOMAIN chapters = VersionNames
                      /\ \A i \in 1..6 :
                            /\ chapters[Versions[i]] = known[i]
                            /\ \/ chapters[Versions[i]] = <<>>
                               \/ \E b \in BlocksOf(doc, Versions[i]) :
                                     chapters[Versions[i]] = ChapterData(b)

\* getMangaMeta resolved for a document with a block of an unknown version
\* and a block of a known one
C22_UnknownBlockAmongKnown ==
    /\ assembled.state = "parsed"
    /\ assembled.channel.promise.state = "fulfilled"
    /\ BlocksOf(assembled.doc, "cat") # {}
    /\ BlocksOf(assembled.doc, "duck") # {}
    /\ assembled.channel.promise.value.chapters.duck # <<>>

(***************************************************************************)
(* search(): genre groups, record count                                    *)
(***************************************************************************)
\* the anchors that end a run: those not followed by an anchor
RunEnds(doc) == { k \in 1..Len(doc.anchors) : ~doc.anchors[k] }

\* the texts of the anchors of the run that ends at anchor k, k included
AnchorRun(doc, k) ==
    LET before == { j \in RunEnds(doc) : j < k }
        start == IF before = {} THEN 0 ELSE CHOOSE j \in before : \A h \in before : h <= j
    IN  [n \in 1..(k - start) |-> AnchorText(doc, start + n)]

\* C23: the genres of the i-th record are the texts of all anchors of the
\* i-th run of genre anchors, in order, the last anchor of the run included.
C23_GenresHoldWholeRun ==
    last.state = "resolved" =>
        \A i \in 1..Len(Records(last)) :
            \A k \in RunEnds(last.doc) :
                Cardinality({ j \in RunEnds(last.doc) : j <= k }) = i
                    => Records(last)[i].genres = <<AnchorRun(last.doc, k)>>

\* C24: search() returns one record per title anchor, in the order of the
\* anchors; a parallel selection that yields fewer elements leaves the field
\* of the records past its end undefined.
C24_OneRecordPerTitle ==
    last.state = "resolved" =>
        LET doc == last.doc
            records == Records(last)
        IN  /\ Len(records) = doc.titles
            /\ \A i \in 1..Len(records) :
                  /\ records[i].title = "title " \o ToString(i)
                  /\ records[i].url = "https://v2.mangapark.net/manga/" \o ToString(i)
                  /\ (records[i].coverImage = None) <=> (i > doc.covers)
                  /\ (records[i].rating = None) <=> (i > doc.rates)
                  /\ i > Len(doc.siblings) => records[i].authors = None
                  /\ i > Len(doc.anchors) => records[i].genres = None

\* a search() returned two records from a document with fewer cover images
\* and ratings than titles
C24_MoreTitlesThanCovers ==
    /\ last.state = "resolved"
    /\ last.doc.titles = 2 /\ last.doc.covers = 1 /\ last.doc.rates = 0
    /\ Len(Records(last)) = 2

====
